---- MODULE Spec2Model ----
(***************************************************************************)
(* promise-transactions: the Transaction class of src/src/transaction.ts.  *)
(*                                                                         *)
(* A Transaction owns an ordered task list and a lifecycle state.  Its     *)
(* async methods execute and rollback run up to their next `await`, where  *)
(* a task's execute or rollback is in progress; the task then returns or   *)
(* throws and the method continues to its next await or to its end.  Each  *)
(* such stretch of code is one action.  Several calls may be in flight on  *)
(* one transaction (a caller need not await the previous call), and add    *)
(* may be called at any time.  A Transaction is itself a Task: one         *)
(* transaction may be a task of another, and its execute or rollback then  *)
(* runs as a call of its own that the outer call awaits.                   *)
(***************************************************************************)
EXTENDS Integers, Sequences, FiniteSets, TLC

VARIABLES
    tasks,      \* Transaction.tasks, per transaction: the registered tasks
    state,      \* Transaction.state, per transaction
    calls,      \* every execute/rollback call issued so far, in call order
    added,      \* per transaction: the tasks handed to add, in the order handed
    ctxs        \* the TransactionResults objects created by execute calls

vars == <<tasks, added, state, calls, ctxs>>

------------------------------------------------------------------------------
(* Bounds of the model *)

\* Longest task list a transaction is given.
MaxTasks == 3

\* Number of execute/rollback calls issued in one behaviour.
MaxCalls == 2

\* With a transaction nested in another: the longest task list of the
\* inner one and the number of calls the callers issue.
MaxInnerTasks == 2
MaxNestedCalls == 1

\* With calls issued while earlier calls are suspended: the longest task
\* list and the number of calls.
MaxFewTasks == 1
MaxManyCalls == 4

\* With tasks that complete: the longest task list and the number of calls.
MaxFairTasks == 3
MaxFairCalls == 1

\* With two separate transactions: the longest task list of each and the
\* number of calls.
MaxPairTasks == 1
MaxPairCalls == 2

------------------------------------------------------------------------------
(* enum TransactionState { NotStarted, Running, Finished } *)

NotStarted == 0
Running == 1
Finished == 2

------------------------------------------------------------------------------
(* The tasks a caller supplies.  A task is an object with a name, an       *)
(* execute and a rollback; the engine never looks inside.  Names are       *)
(* pairwise distinct (README: "Each Task must have a unique name") but are *)
(* otherwise arbitrary strings: "0" and "final" are names like any other.  *)
(* There are as many tasks as a task list may hold.                        *)

LeafTasks == 1..MaxTasks

\* The transactions of the model: new Transaction(name).
Txns == {1}

TxnName(t) ==
    CASE t = 1 -> "outer"
      [] t = 2 -> "inner"

\* A Transaction has a name, an execute and a rollback, and so is a Task:
\* the task that is transaction t.
TxnTask(t) == 100 + t
IsTxn(x) == x > 100
TxnOf(x) == x - 100

TaskName(x) ==
    CASE x = 1 -> "a"
      [] x = 2 -> "0"
      [] x = 3 -> "final"
      [] x = 4 -> "b"
      [] IsTxn(x) -> TxnName(TxnOf(x))

\* Values held in a context or thrown: a tag and a number.
Null == [t |-> "null", v |-> 0]
Undefined == [t |-> "undefined", v |-> 0]
TaskResult(x) == [t |-> "result", v |-> x]
ExecuteError(x) == [t |-> "executeError", v |-> x]
RollbackError(x) == [t |-> "rollbackError", v |-> x]

\* The TransactionResults object with identity id, held as a value.
ResultsRef(id) == [t |-> "results", v |-> id]

\* What call n rejected with, thrown to the call that awaited it.
Rejection(n) == [t |-> "rejection", v |-> n]

\* The messages of the InvalidOperationErrors.
ErrNoTasks == "A Transaction can only be executed with at least one Task."
ErrOnce == "A Transaction can only be executed once."
ErrNotFinished == "A Transaction cannot be rolled back until it has been executed fully."

------------------------------------------------------------------------------
(* TransactionResults: a JavaScript object.  Its property keys are         *)
(* strings; a numeric index is converted to its decimal string.            *)

IndexKey(i) == ToString(i)

\* const results = { final: null }
NewResults == ("final" :> Null)

\* results[key], undefined when the property is absent
Get(ctx, key) == IF key \in DOMAIN ctx THEN ctx[key] ELSE Undefined

\* results[key] = value
Put(ctx, key, value) == (key :> value) @@ ctx

\* The result stored under the index only.
RecordResultIndexOnly(ctx, stage, name, result) ==
    Put(ctx, IndexKey(stage), result)

\* results[stage] = result; results[task.name] = result;
RecordResult(ctx, stage, name, result) ==
    Put(Put(ctx, IndexKey(stage), result), name, result)

\* results.final = results[stage];
SetFinal(ctx, stage) == Put(ctx, "final", Get(ctx, IndexKey(stage)))

\* The context object with identity id; 0 is an object the caller of the
\* public rollback built itself, { final: null }.
Ctx(id) == IF id = 0 THEN NewResults ELSE ctxs[id]

------------------------------------------------------------------------------
(* Task lists.  this.tasks[i] is 0-based. *)

TaskAt(t, i) == tasks[t][i + 1]

Range(s) == {s[k] : k \in DOMAIN s}

\* The argument lists of one add call: one or two tasks.
AddArgs ==
    {<<x>> : x \in LeafTasks}
        \cup {p \in {<<x, y>> : x \in LeafTasks, y \in LeafTasks} : p[1] # p[2]}

\* unshift instead of push
Unshift(list, ts) == ts \o list

\* this.tasks.push(...ts)
Push(list, ts) == list \o ts

------------------------------------------------------------------------------
(* Calls.  A call record is the activation of execute or rollback:         *)
(*   pc       "execute": awaiting tasks[cur].execute(results)              *)
(*            "rollback": awaiting tasks[i].rollback(context)              *)
(*            "done":    the returned promise is settled                   *)
(*   cur      the position of the for...of iterator over this.tasks        *)
(*   stage    execute's local stage                                        *)
(*   i        internalRollback's loop index                                *)
(*   ctx      the identity of results (execute) or context (rollback)      *)
(*   cause    what the catch block of execute caught                       *)
(*   errs     internalRollback's local rollbackErrors                      *)
(*   out      "pending", "resolved" or "rejected"                          *)
(*   err      what it rejected with: an InvalidOperationError message,     *)
(*            "TransactionError" (cause, rollbackErrors) or                *)
(*            "rollbackErrors" (the bare array internalRollback throws)    *)
(*   log      what the tasks saw of this call, in order: each invocation   *)
(*            of a task's execute or rollback and how it ended             *)
(*   parent   the call that awaits this one, when this call is the         *)
(*            execute or rollback of a transaction used as a task; else 0  *)
(*   child    the call this one awaits, when the awaited task is a         *)
(*            transaction; else 0                                          *)

NewCall(t, op) ==
    [txn |-> t, op |-> op, pc |-> "done", cur |-> 0, stage |-> -1, i |-> -1,
     ctx |-> 0, cause |-> Undefined, errs |-> <<>>, rollbackErrors |-> <<>>,
     out |-> "pending", err |-> "", log |-> <<>>, parent |-> 0, child |-> 0]

Event(op, idx, ev, task) == [op |-> op, idx |-> idx, ev |-> ev, task |-> task]

\* task.execute(...) or task.rollback(...) is called and awaited
Invoke(c, op, idx) ==
    [c EXCEPT !.pc = op,
              !.log = Append(@, Event(op, idx, "call", TaskAt(c.txn, idx)))]

\* the awaited operation ended: ev is "return" or "throw"
Ended(c, idx, ev) ==
    [c EXCEPT !.log = Append(@, Event(c.pc, idx, ev, TaskAt(c.txn, idx))),
              !.child = 0]

\* What the code of a call reads and writes: the calls, the contexts and
\* the states of the transactions.  A step of a call maps the world before
\* it to the world after it.
World == [calls |-> calls, ctxs |-> ctxs, state |-> state]

Becomes(W) ==
    /\ calls' = W.calls
    /\ ctxs' = W.ctxs
    /\ state' = W.state

\* Call n invokes op on the task at idx and awaits it.  A task that is a
\* transaction runs its own execute() or rollback(context) up to its first
\* await within the same step (the definition follows Transaction.rollback).
RECURSIVE Await(_, _, _, _)

Init ==
    /\ tasks = [t \in Txns |-> <<>>]
    /\ added = [t \in Txns |-> <<>>]
    /\ state = [t \in Txns |-> NotStarted]
    /\ calls = <<>>
    /\ ctxs = <<>>

------------------------------------------------------------------------------
(* Transaction.add *)

\* public add(...tasks: Task[]): void
Add(t, ts) ==
    /\ tasks' = [tasks EXCEPT ![t] = Push(@, ts)]
    /\ added' = [added EXCEPT ![t] = @ \o ts]
    /\ UNCHANGED <<state, calls, ctxs>>

------------------------------------------------------------------------------
(* Transaction.internalRollback *)

\* A sweep that starts at the failed task.
SweepStartAbove(currentStage) == currentStage + 1

\* A sweep that starts one task too low.
SweepStartBelow(currentStage) == currentStage - 1

\* for (let i = currentStage; ...
SweepStart(currentStage) == currentStage

\* A sweep that skips every other task.
SweepSkip(i) == i - 2

\* ...; i--)
SweepNext(i) == i - 1

\* A catch block that swallows the rollback error.
SwallowRollbackError(errs, e) == errs

\* catch (rollbackError) { rollbackErrors.push(rollbackError); }
CollectRollbackError(errs, e) == Append(errs, e)

\* A sweep that leaves the state Running.
StateStuckRunning == Running

\* this.state = TransactionState.NotStarted;
StateAfterSweep == NotStarted

\* A sweep after which the call resolves.
SweepOutcomeResolves(c) == [c EXCEPT !.pc = "done", !.out = "resolved"]

\* A sweep whose errors are always wrapped in a TransactionError.
SweepOutcomeWrapped(c) ==
    [c EXCEPT !.pc = "done", !.out = "rejected", !.err = "TransactionError",
              !.rollbackErrors = c.errs]

\* The end of a sweep: internalRollback returns, or throws rollbackErrors
\* when it holds any, and its caller settles.  In execute the catch block
\* keeps [] or the thrown array and throws a TransactionError; in rollback
\* the outcome of internalRollback is the outcome of the call.  (The caller
\* resumes in the microtask after internalRollback ends; no task operation
\* lies between the two, and they are one step here.)
SweepOutcome(c) ==
    IF c.op = "execute"
    THEN [c EXCEPT !.pc = "done", !.out = "rejected", !.err = "TransactionError",
                   !.rollbackErrors = IF Len(c.errs) > 0 THEN c.errs ELSE <<>>]
    ELSE IF Len(c.errs) > 0
         THEN [c EXCEPT !.pc = "done", !.out = "rejected", !.err = "rollbackErrors",
                        !.rollbackErrors = c.errs]
         ELSE [c EXCEPT !.pc = "done", !.out = "resolved"]

\* The loop of internalRollback of call n at index i: invoke the rollback of
\* task i and await it, or leave the loop, reset the state and settle.
InternalRollback(W, n) ==
    LET c == W.calls[n]
    IN IF c.i >= 0
       THEN Await(W, n, "rollback", c.i)
       ELSE [W EXCEPT !.calls[n] = SweepOutcome(c),
                      !.state[c.txn] = StateAfterSweep]

------------------------------------------------------------------------------
(* Transaction.execute *)

\* execute without the state check.
ExecuteCheckNoState(len, st) == IF len = 0 THEN ErrNoTasks ELSE "ok"

\* execute without the empty-list check.
ExecuteCheckNoEmpty(len, st) == IF st # NotStarted THEN ErrOnce ELSE "ok"

\* The two precondition checks, in the order of the code.
ExecuteCheck(len, st) ==
    IF len = 0 THEN ErrNoTasks
    ELSE IF st # NotStarted THEN ErrOnce
    ELSE "ok"

\* An iterator that does not advance.
IterStuck(cur) == cur

\* the iterator of for...of advances by one
IterNext(cur) == cur + 1

\* A lifecycle state kept once for all instances instead of per instance.
StartedAll(st, t) == [u \in DOMAIN st |-> Running]

\* this.state = TransactionState.Running;
Started(st, t) == [st EXCEPT ![t] = Running]

\* The for...of loop of call n with its iterator at cur: the iterator reads
\* this.tasks.length anew at every step.  Invoke the execute of the task and
\* await it, or leave the loop, set final, set the state and resolve.
Forward(W, n) ==
    LET c == W.calls[n]
    IN IF c.cur < Len(tasks[c.txn])
       THEN Await(W, n, "execute", c.cur)
       ELSE [W EXCEPT !.calls[n] = [c EXCEPT !.pc = "done", !.out = "resolved"],
                      !.ctxs[c.ctx] = SetFinal(@, c.stage),
                      !.state[c.txn] = Finished]

\* execute() of transaction t, called by a caller (parent 0) or as the task
\* awaited by call parent; it runs to its first await.
Execute(W, t, parent) ==
    LET n == Len(W.calls) + 1
        check == ExecuteCheck(Len(tasks[t]), W.state[t])
        c == [NewCall(t, "execute") EXCEPT !.parent = parent]
    IN IF check # "ok"
       THEN [W EXCEPT !.calls = Append(@, [c EXCEPT !.out = "rejected", !.err = check])]
       ELSE Forward([W EXCEPT !.calls = Append(@, [c EXCEPT !.ctx = Len(W.ctxs) + 1]),
                              !.ctxs = Append(@, NewResults),
                              !.state = Started(@, t)], n)

\* A caller calls execute().
ExecuteCall(t) ==
    /\ Becomes(Execute(World, t, 0))
    /\ UNCHANGED <<tasks, added>>

\* The operation call n awaits has ended in the way `out`: a task of the
\* caller's ends either way at any time, a transaction's execute or rollback
\* as its call settled.
Settled(n, out) ==
    IF calls[n].child = 0 THEN TRUE ELSE calls[calls[n].child].out = out

\* What the awaited execute returned: the task's value, or the results
\* object of the transaction's execute.
Returned(c, task) ==
    IF c.child = 0 THEN TaskResult(task) ELSE ResultsRef(calls[c.child].ctx)

\* What the awaited operation threw: the task's error, or what the call of
\* the transaction rejected with.
Thrown(c, e) == IF c.child = 0 THEN e ELSE Rejection(c.child)

\* The awaited task.execute(results) returned a value: stage++, the result
\* is stored, and the loop goes on.
TaskExecuteReturns(n) ==
    /\ calls[n].pc = "execute"
    /\ Settled(n, "resolved")
    /\ LET c == calls[n]
           task == TaskAt(c.txn, c.cur)
           stage == c.stage + 1
       IN Becomes(Forward(
              [World EXCEPT
                  !.calls[n] = [Ended(c, c.cur, "return") EXCEPT
                                   !.stage = stage, !.cur = IterNext(c.cur)],
                  !.ctxs[c.ctx] = RecordResult(@, stage, TaskName(task),
                                               Returned(c, task))],
              n))
    /\ UNCHANGED <<tasks, added>>

\* The awaited task.execute(results) threw: the catch block calls
\* internalRollback(results, stage).
TaskExecuteThrows(n) ==
    /\ calls[n].pc = "execute"
    /\ Settled(n, "rejected")
    /\ LET c == calls[n]
           task == TaskAt(c.txn, c.cur)
       IN Becomes(InternalRollback(
              [World EXCEPT
                  !.calls[n] = [Ended(c, c.cur, "throw") EXCEPT
                                   !.cause = Thrown(c, ExecuteError(task)),
                                   !.i = SweepStart(c.stage)]],
              n))
    /\ UNCHANGED <<tasks, added>>

------------------------------------------------------------------------------
(* Transaction.rollback *)

\* rollback without the state check.
RollbackCheckNone(st) == "ok"

\* A rollback that refuses in every state.
RollbackCheckNever(st) == ErrNotFinished

\* if (this.state !== TransactionState.Finished) throw ...
RollbackCheck(st) == IF st # Finished THEN ErrNotFinished ELSE "ok"

\* rollback(context) of transaction t, called by a caller (parent 0) with
\* the context object of its choice or as the task awaited by call parent
\* with that call's context; it runs
\* internalRollback(context, this.tasks.length - 1) to its first await.
Rollback(W, t, arg, parent) ==
    LET n == Len(W.calls) + 1
        check == RollbackCheck(W.state[t])
        c == [NewCall(t, "rollback") EXCEPT !.ctx = arg, !.parent = parent]
    IN IF check # "ok"
       THEN [W EXCEPT !.calls = Append(@, [c EXCEPT !.out = "rejected", !.err = check])]
       ELSE InternalRollback(
                [W EXCEPT !.calls = Append(@, [c EXCEPT
                                       !.i = SweepStart(Len(tasks[t]) - 1)])],
                n)

\* A caller calls rollback(context).
RollbackCall(t, arg) ==
    /\ Becomes(Rollback(World, t, arg, 0))
    /\ UNCHANGED <<tasks, added>>

\* The awaited task.rollback(context) returned.
TaskRollbackReturns(n) ==
    /\ calls[n].pc = "rollback"
    /\ Settled(n, "resolved")
    /\ LET c == calls[n]
       IN Becomes(InternalRollback(
              [World EXCEPT
                  !.calls[n] = [Ended(c, c.i, "return") EXCEPT !.i = SweepNext(c.i)]],
              n))
    /\ UNCHANGED <<tasks, added>>

\* The awaited task.rollback(context) threw.
TaskRollbackThrows(n) ==
    /\ calls[n].pc = "rollback"
    /\ Settled(n, "rejected")
    /\ LET c == calls[n]
           e == Thrown(c, RollbackError(TaskAt(c.txn, c.i)))
       IN Becomes(InternalRollback(
              [World EXCEPT
                  !.calls[n] = [Ended(c, c.i, "throw") EXCEPT
                                   !.errs = CollectRollbackError(c.errs, e),
                                   !.i = SweepNext(c.i)]],
              n))
    /\ UNCHANGED <<tasks, added>>

------------------------------------------------------------------------------
(* A task that is a transaction *)

\* await task.execute(results) / await task.rollback(context): the call is
\* made, and a transaction's method runs at once up to its own first await.
\* Transaction.execute takes no parameter and ignores the results passed;
\* Transaction.rollback is handed the context of the calling sweep.
Await(W, n, op, idx) ==
    LET c == W.calls[n]
        x == TaskAt(c.txn, idx)
        W1 == [W EXCEPT !.calls[n] =
                  [Invoke(c, op, idx) EXCEPT
                      !.child = IF IsTxn(x) THEN Len(W.calls) + 1 ELSE 0]]
    IN IF ~IsTxn(x) THEN W1
       ELSE IF op = "execute" THEN Execute(W1, TxnOf(x), n)
       ELSE Rollback(W1, TxnOf(x), c.ctx, n)

------------------------------------------------------------------------------

\* The callers: they hand each task to a transaction at most once, keep
\* the task lists within MaxTasks and issue at most MaxCalls calls.
MayAdd(t, ts) ==
    /\ Len(tasks[t]) + Len(ts) <= MaxTasks
    /\ Range(ts) \cap Range(tasks[t]) = {}

MayCall == Len(calls) < MaxCalls

Next ==
    \/ \E t \in Txns, ts \in AddArgs : MayAdd(t, ts) /\ Add(t, ts)
    \/ \E t \in Txns : MayCall /\ ExecuteCall(t)
    \/ \E t \in Txns, arg \in 0..Len(ctxs) : MayCall /\ RollbackCall(t, arg)
    \/ \E n \in DOMAIN calls : TaskExecuteReturns(n)
    \/ \E n \in DOMAIN calls : TaskExecuteThrows(n)
    \/ \E n \in DOMAIN calls : TaskRollbackReturns(n)
    \/ \E n \in DOMAIN calls : TaskRollbackThrows(n)

Spec == Init /\ [][Next]_vars

------------------------------------------------------------------------------
(* Tasks that complete: the operation a call awaits eventually returns or  *)
(* throws.  Nothing obliges a caller to add a task or to issue a call.     *)

TaskSettles(n) ==
    /\ n \in DOMAIN calls
    /\ \/ TaskExecuteReturns(n)
       \/ TaskExecuteThrows(n)
       \/ TaskRollbackReturns(n)
       \/ TaskRollbackThrows(n)

TasksComplete == \A n \in 1..MaxFairCalls : WF_vars(TaskSettles(n))

MayAddFair(t, ts) ==
    /\ Len(tasks[t]) + Len(ts) <= MaxFairTasks
    /\ Range(ts) \cap Range(tasks[t]) = {}

MayCallFair == Len(calls) < MaxFairCalls

NextFair ==
    \/ \E t \in Txns, ts \in AddArgs : MayAddFair(t, ts) /\ Add(t, ts)
    \/ \E t \in Txns : MayCallFair /\ ExecuteCall(t)
    \/ \E t \in Txns, arg \in 0..Len(ctxs) : MayCallFair /\ RollbackCall(t, arg)
    \/ \E n \in DOMAIN calls : TaskExecuteReturns(n)
    \/ \E n \in DOMAIN calls : TaskExecuteThrows(n)
    \/ \E n \in DOMAIN calls : TaskRollbackReturns(n)
    \/ \E n \in DOMAIN calls : TaskRollbackThrows(n)

FairSpec == Init /\ [][NextFair]_vars /\ TasksComplete

------------------------------------------------------------------------------
(* Callers that do not await: many calls on a transaction of few tasks. *)

MayAddFew(t, ts) ==
    /\ Len(tasks[t]) + Len(ts) <= MaxFewTasks
    /\ Range(ts) \cap Range(tasks[t]) = {}

MayCallMany == Len(calls) < MaxManyCalls

NextManyCalls ==
    \/ \E t \in Txns, ts \in AddArgs : MayAddFew(t, ts) /\ Add(t, ts)
    \/ \E t \in Txns : MayCallMany /\ ExecuteCall(t)
    \/ \E t \in Txns, arg \in 0..Len(ctxs) : MayCallMany /\ RollbackCall(t, arg)
    \/ \E n \in DOMAIN calls : TaskExecuteReturns(n)
    \/ \E n \in DOMAIN calls : TaskExecuteThrows(n)
    \/ \E n \in DOMAIN calls : TaskRollbackReturns(n)
    \/ \E n \in DOMAIN calls : TaskRollbackThrows(n)

SpecManyCalls == Init /\ [][NextManyCalls]_vars

------------------------------------------------------------------------------
(* Nesting: const outer = new Transaction('outer'), inner = new             *)
(* Transaction('inner'); outer.add(..., inner, ...).  The callers give the *)
(* inner transaction tasks of their own and the outer one tasks of their   *)
(* own and the inner transaction, in any order, and then call execute and  *)
(* rollback on the outer transaction.                                      *)

Outer == 1
Inner == 2

InitNested ==
    /\ tasks = [t \in {Outer, Inner} |-> <<>>]
    /\ added = [t \in {Outer, Inner} |-> <<>>]
    /\ state = [t \in {Outer, Inner} |-> NotStarted]
    /\ calls = <<>>
    /\ ctxs = <<>>

\* The tasks a caller may hand to each transaction: to the inner one up to
\* MaxInnerTasks tasks, to the outer one the inner transaction and two
\* tasks of its own, one of them a task of the inner transaction as well.
InnerTasks == 1..MaxInnerTasks
OuterTasks == {1, 4, TxnTask(Inner)}
TasksFor(t) == IF t = Outer THEN OuterTasks ELSE InnerTasks

MayAddNested(t, x) ==
    /\ calls = <<>>
    /\ x \notin Range(tasks[t])

\* The calls issued by callers, not by a transaction awaiting a task.
CallersCalls == {n \in DOMAIN calls : calls[n].parent = 0}

MayCallNested == Cardinality(CallersCalls) < MaxNestedCalls

NextNested ==
    \/ \E t \in {Outer, Inner} :
          \E x \in TasksFor(t) : MayAddNested(t, x) /\ Add(t, <<x>>)
    \/ MayCallNested /\ ExecuteCall(Outer)
    \/ \E arg \in 0..Len(ctxs) : MayCallNested /\ RollbackCall(Outer, arg)
    \/ \E n \in DOMAIN calls : TaskExecuteReturns(n)
    \/ \E n \in DOMAIN calls : TaskExecuteThrows(n)
    \/ \E n \in DOMAIN calls : TaskRollbackReturns(n)
    \/ \E n \in DOMAIN calls : TaskRollbackThrows(n)

SpecNested == InitNested /\ [][NextNested]_vars

------------------------------------------------------------------------------
(* Two transactions that share no task: each is given tasks of its own,    *)
(* and the callers call execute and rollback on either, with any context.  *)

Pair == {1, 2}

InitPair ==
    /\ tasks = [t \in Pair |-> <<>>]
    /\ added = [t \in Pair |-> <<>>]
    /\ state = [t \in Pair |-> NotStarted]
    /\ calls = <<>>
    /\ ctxs = <<>>

\* The tasks handed to transaction t: MaxPairTasks tasks that the other
\* transaction is not given.
PairTasks(t) == ((t - 1) * MaxPairTasks + 1)..(t * MaxPairTasks)

MayAddPair(t, x) == x \notin Range(tasks[t])

MayCallPair == Len(calls) < MaxPairCalls

NextPair ==
    \/ \E t \in Pair : \E x \in PairTasks(t) : MayAddPair(t, x) /\ Add(t, <<x>>)
    \/ \E t \in Pair : MayCallPair /\ ExecuteCall(t)
    \/ \E t \in Pair, arg \in 0..Len(ctxs) : MayCallPair /\ RollbackCall(t, arg)
    \/ \E n \in DOMAIN calls : TaskExecuteReturns(n)
    \/ \E n \in DOMAIN calls : TaskExecuteThrows(n)
    \/ \E n \in DOMAIN calls : TaskRollbackReturns(n)
    \/ \E n \in DOMAIN calls : TaskRollbackThrows(n)

SpecPair == InitPair /\ [][NextPair]_vars

------------------------------------------------------------------------------
(* What the claims speak about, read off a call's log. *)

\* the events of call c of one kind, in order
Events(c, op, ev) == SelectSeq(c.log, LAMBDA e : e.op = op /\ e.ev = ev)

Indexes(es) == [j \in DOMAIN es |-> es[j].idx]
TasksOf(es) == [j \in DOMAIN es |-> es[j].task]
Reverse(s) == [j \in DOMAIN s |-> s[Len(s) + 1 - j]]

\* <<k-1, k-2, ..., 0>>
Descending(k) == [j \in 1..k |-> k - j]

IsPrefix(s, w) == Len(s) <= Len(w) /\ s = SubSeq(w, 1, Len(s))

\* call c is an execute call in which the execute of a task failed
ExecuteFailed(c) == c.op = "execute" /\ Len(Events(c, "execute", "throw")) > 0

\* the index k of the task whose execute failed in call c
FailedIndex(c) == Events(c, "execute", "throw")[1].idx

\* (C1) When the execute of task k fails during execute, tasks k-1, ..., 0
\* get one rollback call each, in this order, on the tasks that were
\* executed; task k and later tasks get none; and the call rejects with a
\* TransactionError whose cause is the failure of task k.
C1_FailureRollsBackCompleted ==
    \A n \in DOMAIN calls :
        LET c == calls[n]
            thrown == Events(c, "execute", "throw")
            rb == Events(c, "rollback", "call")
        IN  ExecuteFailed(c) =>
                /\ Len(thrown) = 1
                /\ \A j \in DOMAIN rb : rb[j].task = added[c.txn][rb[j].idx + 1]
                /\ IF c.pc = "done"
                   THEN /\ Indexes(rb) = Descending(FailedIndex(c))
                        /\ c.out = "rejected"
                        /\ c.err = "TransactionError"
                        /\ c.cause = ExecuteError(thrown[1].task)
                   ELSE /\ c.pc = "rollback"
                        /\ c.out = "pending"
                        /\ IsPrefix(Indexes(rb), Descending(FailedIndex(c)))

\* C1's case: task 2 failed, tasks 1 and 0 were rolled back, the call rejected.
C1_Witness ==
    \E n \in DOMAIN calls :
        /\ ExecuteFailed(calls[n])
        /\ calls[n].pc = "done"
        /\ FailedIndex(calls[n]) = 2
        /\ Len(Events(calls[n], "rollback", "call")) = 2

\* (C2) A failing rollback never stops the sweep: all of tasks k-1, ..., 0
\* are rolled back whichever rollbacks fail, and the TransactionError
\* carries the cause and, as rollbackErrors, exactly the errors of the
\* rollbacks that failed, in the order of the attempts (empty when none
\* failed).
C2_RollbackErrorsCollected ==
    \A n \in DOMAIN calls :
        LET c == calls[n]
            failedRb == Events(c, "rollback", "throw")
        IN  (ExecuteFailed(c) /\ c.pc = "done") =>
                /\ Indexes(Events(c, "rollback", "call")) = Descending(FailedIndex(c))
                /\ Len(Events(c, "rollback", "return")) + Len(failedRb)
                       = FailedIndex(c)
                /\ c.err = "TransactionError"
                /\ c.cause = ExecuteError(Events(c, "execute", "throw")[1].task)
                /\ c.rollbackErrors
                       = [j \in DOMAIN failedRb |-> RollbackError(failedRb[j].task)]

\* C2's case: the rollback of task 1 failed and task 0 was still rolled back.
C2_Witness ==
    \E n \in DOMAIN calls :
        LET c == calls[n]
        IN  /\ ExecuteFailed(c)
            /\ c.pc = "done"
            /\ Indexes(Events(c, "rollback", "throw")) = <<1>>
            /\ Indexes(Events(c, "rollback", "return")) = <<0>>
            /\ Len(c.rollbackErrors) = 1

\* (C3) When every task's execute succeeds, execute resolves with a mapping
\* whose final is the last task's result and which holds every task's
\* result under its index and under its name; no rollback is invoked, and
\* the state is Finished (as long as no later call was issued).
C3_SuccessResults ==
    \A n \in DOMAIN calls :
        LET c == calls[n]
            ran == Events(c, "execute", "return")
        IN  (c.op = "execute" /\ c.out = "resolved") =>
                /\ Len(ran) > 0
                /\ Get(ctxs[c.ctx], "final") = TaskResult(ran[Len(ran)].task)
                /\ \A j \in DOMAIN ran :
                       /\ Get(ctxs[c.ctx], IndexKey(ran[j].idx)) = TaskResult(ran[j].task)
                       /\ Get(ctxs[c.ctx], TaskName(ran[j].task)) = TaskResult(ran[j].task)
                /\ Events(c, "rollback", "call") = <<>>
                /\ (n = Len(calls) => state[c.txn] = Finished)

\* (C4) Tasks are executed in the order they were handed to add, one at a
\* time: the execute of task i+1 is invoked right after that of task i has
\* returned; and the rollbacks of a failed execute run through the tasks
\* that returned, in the reverse of the order in which they returned.
C4_ForwardAndReverseOrder ==
    \A n \in DOMAIN calls :
        LET c == calls[n]
            ex == Events(c, "execute", "call")
            ran == Events(c, "execute", "return")
            rb == Events(c, "rollback", "call")
        IN  c.op = "execute" =>
                /\ \A j \in DOMAIN ex :
                       /\ ex[j].idx = j - 1
                       /\ ex[j].task = added[c.txn][j]
                /\ \A p \in DOMAIN c.log :
                       (c.log[p].op = "execute" /\ c.log[p].ev = "call" /\ p > 1) =>
                           c.log[p - 1] = Event("execute", c.log[p].idx - 1, "return",
                                                added[c.txn][c.log[p].idx])
                /\ IsPrefix(TasksOf(rb), Reverse(TasksOf(ran)))
                /\ (ExecuteFailed(c) /\ c.pc = "done") =>
                       TasksOf(rb) = Reverse(TasksOf(ran))

\* C4's case: three tasks, handed over in more than one add call, of which
\* two returned and the third failed, and the two were rolled back.
C4_Witness ==
    \E n \in DOMAIN calls :
        LET c == calls[n]
        IN  /\ ExecuteFailed(c)
            /\ c.pc = "done"
            /\ Len(Events(c, "execute", "call")) = 3
            /\ Len(Events(c, "rollback", "call")) = 2

\* (C5) While the execute of the task at position i is in progress, the
\* context it was given holds exactly final and the index and name entries
\* of the tasks at positions 0..i-1, each earlier task's result is read
\* under its index and under its name, nothing of task i or a later task
\* is in it, and final is null.
C5_ContextAtExecute ==
    \A n \in DOMAIN calls :
        LET c == calls[n]
            r == ctxs[c.ctx]
            earlier == 0..(c.cur - 1)
        IN  (c.op = "execute" /\ c.pc = "execute") =>
                /\ DOMAIN r = {"final"}
                       \cup {IndexKey(j) : j \in earlier}
                       \cup {TaskName(TaskAt(c.txn, j)) : j \in earlier}
                /\ \A j \in earlier :
                       /\ r[IndexKey(j)] = TaskResult(TaskAt(c.txn, j))
                       /\ r[TaskName(TaskAt(c.txn, j))] = TaskResult(TaskAt(c.txn, j))
                /\ \A j \in c.cur..(Len(tasks[c.txn]) - 1) :
                       /\ IndexKey(j) \notin DOMAIN r
                       /\ \A key \in DOMAIN r : r[key] # TaskResult(TaskAt(c.txn, j))
                /\ r["final"] = Null

------------------------------------------------------------------------------
(* Claims about one step: a call being issued, a call settling. *)

\* this step issues a call of op on transaction t
Issues(t, op) ==
    /\ Len(calls') = Len(calls) + 1
    /\ calls'[Len(calls')].op = op
    /\ calls'[Len(calls')].txn = t

\* this step's new call is refused with msg and touches nothing else
Refused(msg) ==
    /\ calls'[Len(calls')].out = "rejected"
    /\ calls'[Len(calls')].err = msg
    /\ calls'[Len(calls')].log = <<>>
    /\ SubSeq(calls', 1, Len(calls)) = calls
    /\ state' = state
    /\ ctxs' = ctxs
    /\ tasks' = tasks

\* (C6) execute on a transaction whose state is Finished or Running is
\* refused with "... only be executed once.", invokes no task operation and
\* leaves the state as it is.
C6_ExecuteOnlyOnce ==
    [][\A t \in Txns :
          (Issues(t, "execute") /\ state[t] \in {Running, Finished}) =>
              Refused(ErrOnce)]_vars

\* C6's case: an execute was refused while the compensation sweep of an
\* earlier execute was suspended at a task.
C6_Witness ==
    \E m \in DOMAIN calls, n \in DOMAIN calls :
        /\ m < n
        /\ calls[m].op = "execute" /\ calls[m].pc = "rollback"
        /\ calls[n].op = "execute" /\ calls[n].err = ErrOnce

\* (C7) execute on a transaction with no tasks is refused with "... at
\* least one Task.", whatever the state; it invokes nothing, and the state
\* is and stays NotStarted.
C7_ExecuteNeedsTasks ==
    [][\A t \in Txns :
          (Issues(t, "execute") /\ Len(tasks[t]) = 0) =>
              /\ Refused(ErrNoTasks)
              /\ state[t] = NotStarted
              /\ state'[t] = NotStarted]_vars

\* C7's case: an execute was refused for want of tasks.
C7_Witness ==
    \E n \in DOMAIN calls :
        /\ calls[n].op = "execute"
        /\ calls[n].err = ErrNoTasks
        /\ state[calls[n].txn] = NotStarted

\* (C8) rollback on a transaction whose state is not Finished is refused
\* with "... cannot be rolled back until ...", invokes no task rollback
\* and leaves the state as it is.
C8_RollbackOnlyWhenFinished ==
    [][\A t \in Txns :
          (Issues(t, "rollback") /\ state[t] # Finished) =>
              Refused(ErrNotFinished)]_vars

\* C8's case: a rollback was refused after a failed execute had been
\* compensated and had reset the transaction to NotStarted.
C8_Witness ==
    \E m \in DOMAIN calls, n \in DOMAIN calls :
        /\ m < n
        /\ calls[m].op = "execute" /\ calls[m].err = "TransactionError"
        /\ Len(Events(calls[m], "rollback", "call")) > 0
        /\ calls[n].op = "rollback" /\ calls[n].err = ErrNotFinished
        /\ state[calls[n].txn] = NotStarted

\* the number of times the execute of the task at index idx was invoked in
\* the calls 1..n of transaction t
RECURSIVE ExecuteCount(_, _, _)
ExecuteCount(t, idx, n) ==
    IF n = 0 THEN 0
    ELSE ExecuteCount(t, idx, n - 1)
         + (IF calls[n].txn = t
            THEN Len(SelectSeq(Events(calls[n], "execute", "call"),
                               LAMBDA e : e.idx = idx))
            ELSE 0)

\* (C9, as claimed) Over all the calls on one instance, the execute of each
\* registered task is invoked at most once.
C9_ExecutedOncePerInstance ==
    \A t \in Txns : \A idx \in 0..(Len(tasks[t]) - 1) :
        ExecuteCount(t, idx, Len(calls)) <= 1

\* (C9, amended) Within one execute call the execute of each registered
\* task is invoked at most once, and only an execute call that passed the
\* precondition checks invokes any.
C9_ExecutedOncePerCall ==
    \A n \in DOMAIN calls :
        LET ex == Events(calls[n], "execute", "call")
        IN  /\ \A j \in DOMAIN ex, k \in DOMAIN ex : ex[j].idx = ex[k].idx => j = k
            /\ (calls[n].op = "rollback" \/ calls[n].err \in {ErrNoTasks, ErrOnce})
                   => ex = <<>>

\* C9's case: two execute calls on one instance each ran task 0.
C9_Witness ==
    \E m \in DOMAIN calls, n \in DOMAIN calls :
        /\ m < n
        /\ calls[m].txn = calls[n].txn
        /\ Len(Events(calls[m], "execute", "call")) > 0
        /\ Len(Events(calls[n], "execute", "return")) > 1

\* (C10) When a failed execute has attempted its rollbacks and rejects, the
\* state is NotStarted; and an execute issued in state NotStarted (with
\* tasks) is accepted: the state becomes Running and it invokes task 0 with
\* a new context object holding only final: null.
C10_ReExecutable ==
    [][/\ \A n \in DOMAIN calls :
              (calls[n].pc # "done" /\ calls'[n].pc = "done"
                   /\ calls'[n].err = "TransactionError") =>
                  /\ state'[calls[n].txn] = NotStarted
                  /\ Indexes(Events(calls'[n], "rollback", "call"))
                         = Descending(FailedIndex(calls'[n]))
       /\ \A t \in Txns :
              (Issues(t, "execute") /\ state[t] = NotStarted /\ Len(tasks[t]) > 0) =>
                  LET c == calls'[Len(calls')]
                  IN  /\ c.out = "pending"
                      /\ c.pc = "execute"
                      /\ c.stage = -1
                      /\ c.log = <<Event("execute", 0, "call", TaskAt(t, 0))>>
                      /\ c.ctx \notin DOMAIN ctxs
                      /\ \A m \in DOMAIN calls : calls[m].ctx # c.ctx
                      /\ ctxs'[c.ctx] = NewResults
                      /\ state'[t] = Running]_vars

\* C10's case: an execute failed with a failing rollback, and the next
\* execute on the instance was accepted and ran task 0 on a new context.
C10_Witness ==
    \E m \in DOMAIN calls, n \in DOMAIN calls :
        /\ m < n
        /\ calls[m].txn = calls[n].txn
        /\ calls[m].err = "TransactionError"
        /\ Len(calls[m].rollbackErrors) > 0
        /\ calls[n].op = "execute"
        /\ calls[n].pc = "execute"
        /\ calls[n].cur = 0
        /\ calls[n].ctx # calls[m].ctx
        /\ ctxs[calls[n].ctx] = NewResults
        /\ ctxs[calls[m].ctx] # NewResults

------------------------------------------------------------------------------
(* Claims about a transaction used as a task of another. *)

\* The calls a transaction made for call n: the execute or rollback of a
\* task of n that is itself a transaction.
ChildCalls(n, op) ==
    {m \in DOMAIN calls : calls[m].parent = n /\ calls[m].op = op}

\* The task whose execute returned last in call c, and what it returned to
\* a call that ran it as task: a task's value, or the results object of the
\* transaction's execute call.
LastReturned(c) ==
    LET es == Events(c, "execute", "return") IN es[Len(es)].task

\* The accepted execute calls on transaction t.
Accepted(t) ==
    {n \in DOMAIN calls :
        calls[n].txn = t /\ calls[n].op = "execute" /\ calls[n].ctx # 0}

\* C11: once the execute of the inner transaction has returned to the
\* execute of the outer one, the outer context holds under the inner
\* transaction's name the results object of that inner execute, whose final
\* is the result of the last inner task; and the final of a resolved outer
\* execute is what its last task returned.
C11_InnerResultsInOuterContext ==
    \A n \in Accepted(Outer) :
        LET c == calls[n]
        IN  /\ \A m \in ChildCalls(n, "execute") :
                   TxnTask(Inner) \in Range(TasksOf(Events(c, "execute", "return"))) =>
                       /\ calls[m].out = "resolved"
                       /\ Get(ctxs[c.ctx], TxnName(Inner)) = ResultsRef(calls[m].ctx)
                       /\ calls[m].ctx # c.ctx
                       /\ Get(ctxs[calls[m].ctx], "final")
                              = TaskResult(LastReturned(calls[m]))
            /\ c.out = "resolved" =>
                   Get(ctxs[c.ctx], "final") =
                       IF IsTxn(LastReturned(c))
                       THEN Get(ctxs[c.ctx], TxnName(Inner))
                       ELSE TaskResult(LastReturned(c))

\* C11's case: the outer execute resolved after running the inner
\* transaction, of two tasks, and then a task of its own, which was invoked
\* with the inner results in the outer context.
C11_Witness ==
    \E n \in Accepted(Outer) : \E m \in ChildCalls(n, "execute") :
        /\ calls[n].out = "resolved"
        /\ calls[m].out = "resolved"
        /\ Len(Events(calls[m], "execute", "return")) = 2
        /\ IsTxn(TaskAt(Outer, 0))
        /\ ~IsTxn(LastReturned(calls[n]))
        /\ Get(ctxs[calls[n].ctx], TxnName(Inner)) = ResultsRef(calls[m].ctx)

\* The outer execute c ran the inner transaction to its end and a later
\* task of the outer transaction then failed.
FailedAfterInner(c) ==
    /\ c.op = "execute"
    /\ c.txn = Outer
    /\ ExecuteFailed(c)
    /\ TxnTask(Inner) \in Range(TasksOf(Events(c, "execute", "return")))

\* The index of the inner transaction in the task list of the outer one.
InnerIndex == CHOOSE j \in 0..(Len(tasks[Outer]) - 1) : TaskAt(Outer, j) = TxnTask(Inner)

\* Call m rolled back every task of the inner transaction once, from the
\* last to the first, and each of these rollbacks has ended.
RolledBackInner(m) ==
    /\ calls[m].txn = Inner
    /\ calls[m].pc = "done"
    /\ Indexes(Events(calls[m], "rollback", "call")) = Descending(Len(tasks[Inner]))
    /\ Len(Events(calls[m], "rollback", "return"))
           + Len(Events(calls[m], "rollback", "throw")) = Len(tasks[Inner])

\* In every state where the compensation of a failed outer execute has
\* invoked the rollback of a task registered before the inner transaction,
\* one rollback call on the inner transaction has already rolled back all
\* its tasks.
InnerBeforeEarlier ==
    \A n \in DOMAIN calls :
        FailedAfterInner(calls[n]) =>
            \A k \in DOMAIN calls[n].log :
                LET e == calls[n].log[k]
                IN (e.op = "rollback" /\ e.idx < InnerIndex) =>
                       /\ Cardinality(ChildCalls(n, "rollback")) = 1
                       /\ \A m \in ChildCalls(n, "rollback") : RolledBackInner(m)

\* C12: when a task of the outer transaction fails after the inner
\* transaction finished, the compensation of the outer execute calls the
\* rollback of the inner transaction once, which rolls back every inner
\* task once in descending index order before any earlier outer task is
\* rolled back; when the outer execute rejects, both transactions are
\* NotStarted.
C12_InnerRolledBackAsUnit ==
    [][/\ InnerBeforeEarlier'
       /\ \A n \in DOMAIN calls :
              (calls[n].pc # "done" /\ calls'[n].pc = "done"
                  /\ FailedAfterInner(calls'[n])) =>
                  /\ Cardinality(ChildCalls(n, "rollback")') = 1
                  /\ \A m \in ChildCalls(n, "rollback")' : RolledBackInner(m)'
                  /\ Indexes(Events(calls'[n], "rollback", "call"))
                         = Descending(FailedIndex(calls'[n]))
                  /\ state'[Inner] = NotStarted
                  /\ state'[Outer] = NotStarted]_vars

\* C12's case: the outer transaction holds a task, the inner transaction of
\* two tasks and a last task; the last task failed and the outer execute
\* has rejected, the rollbacks of the inner tasks and of the first task
\* done.
C12_Witness ==
    \E n \in DOMAIN calls : \E m \in ChildCalls(n, "rollback") :
        /\ FailedAfterInner(calls[n])
        /\ calls[n].pc = "done"
        /\ InnerIndex = 1
        /\ FailedIndex(calls[n]) = 2
        /\ Indexes(Events(calls[m], "rollback", "call")) = <<1, 0>>
        /\ Indexes(Events(calls[n], "rollback", "call")) = <<1, 0>>
        /\ state[Inner] = NotStarted
        /\ state[Outer] = NotStarted

\* Call n belongs to the compensation of a failed execute: it is that
\* execute, or the rollback of a transaction that its sweep awaits.
Compensating(n) ==
    \/ calls[n].op = "execute"
    \/ calls[n].parent # 0 /\ calls[calls[n].parent].op = "execute"

\* C13: while the rollback of a task is in progress in a compensation, the
\* context it was handed holds under the task's name what the execute of
\* that task returned: a task's own value, or the results object of a
\* transaction.
C13_RollbackSeesOwnResult ==
    \A n \in DOMAIN calls :
        (calls[n].pc = "rollback" /\ Compensating(n)) =>
            LET c == calls[n]
                x == TaskAt(c.txn, c.i)
                v == Get(Ctx(c.ctx), TaskName(x))
            IN IF IsTxn(x) THEN v.t = "results" ELSE v = TaskResult(x)

------------------------------------------------------------------------------
(* Claims about the context a sweep hands to the rollbacks, the public     *)
(* rollback and the outcomes of the calls.                                 *)

\* C14: while a rollback of the compensation of an execute that failed at
\* task k is in progress, the context it was handed is the results object
\* of that execute; it holds the result of each task 0..k-1 under its index
\* and under its name, nothing of task k, and final is still null.
C14_ContextAtRollback ==
    \A n \in DOMAIN calls :
        LET c == calls[n]
        IN (c.op = "execute" /\ c.pc = "rollback" /\ c.parent = 0) =>
               LET k == FailedIndex(c)
                   r == Ctx(c.ctx)
               IN  /\ c.ctx \in DOMAIN ctxs
                   /\ \A j \in 0..(k - 1) :
                          /\ Get(r, IndexKey(j)) = TaskResult(TaskAt(c.txn, j))
                          /\ Get(r, TaskName(TaskAt(c.txn, j)))
                                 = TaskResult(TaskAt(c.txn, j))
                   /\ IndexKey(k) \notin DOMAIN r
                   /\ \A key \in DOMAIN r : r[key] # TaskResult(TaskAt(c.txn, k))
                   /\ Get(r, "final") = Null

\* Call n settles in this step.
Settles(n) == calls[n].pc # "done" /\ calls'[n].pc = "done"

\* The number of task operations of kind op in call c that have ended.
EndedCount(c, op) == Len(Events(c, op, "return")) + Len(Events(c, op, "throw"))

\* C15: a rollback call on a Finished transaction of n tasks starts its
\* sweep at task n-1; when it settles, it has invoked the rollback of tasks
\* n-1, ..., 0 once each in this order, whichever of them failed, each has
\* ended, and the state is NotStarted.
C15_PublicRollbackSweep ==
    [][/\ \A t \in Txns :
              (Issues(t, "rollback") /\ state[t] = Finished) =>
                  LET c == calls'[Len(calls')]
                  IN  /\ c.pc = "rollback"
                      /\ c.log = <<Event("rollback", Len(tasks[t]) - 1, "call",
                                         TaskAt(t, Len(tasks[t]) - 1))>>
       /\ \A n \in DOMAIN calls :
              (calls[n].op = "rollback" /\ Settles(n)) =>
                  LET c == calls'[n]
                      first == Events(c, "rollback", "call")[1].idx
                  IN  /\ Indexes(Events(c, "rollback", "call")) = Descending(first + 1)
                      /\ \A j \in 1..Len(Events(c, "rollback", "call")) :
                             Events(c, "rollback", "call")[j].task
                                 = TaskAt(c.txn, first + 1 - j)
                      /\ EndedCount(c, "rollback") = first + 1
                      /\ state'[c.txn] = NotStarted]_vars

\* C15's case: a rollback call on a Finished transaction of three tasks has
\* settled; the rollback of task 2 failed and those of tasks 1 and 0 were
\* invoked after it.
C15_Witness ==
    \E n \in DOMAIN calls :
        LET c == calls[n]
        IN  /\ c.op = "rollback"
            /\ c.pc = "done"
            /\ Len(tasks[c.txn]) = 3
            /\ Indexes(Events(c, "rollback", "call")) = <<2, 1, 0>>
            /\ Indexes(Events(c, "rollback", "throw")) = <<2>>
            /\ state[c.txn] = NotStarted

\* The errors thrown by the rollbacks of call c, in the order thrown.
RollbackErrorsOf(c) ==
    LET es == Events(c, "rollback", "throw")
    IN [j \in DOMAIN es |-> RollbackError(es[j].task)]

\* C16: a settled rollback call that was accepted resolved if none of its
\* task rollbacks threw; otherwise it rejected with the sequence of the
\* thrown errors in the order thrown, which is not a TransactionError and
\* has no cause, whereas a failed execute rejects with a TransactionError
\* that has one.
C16_PublicRollbackOutcome ==
    \A n \in DOMAIN calls :
        LET c == calls[n]
        IN  /\ (c.op = "rollback" /\ c.pc = "done" /\ Len(c.log) > 0) =>
                   /\ c.cause = Undefined
                   /\ c.err # "TransactionError"
                   /\ c.rollbackErrors = RollbackErrorsOf(c)
                   /\ IF Len(RollbackErrorsOf(c)) = 0
                      THEN c.out = "resolved" /\ c.err = ""
                      ELSE c.out = "rejected" /\ c.err = "rollbackErrors"
            /\ (ExecuteFailed(c) /\ c.pc = "done") =>
                   /\ c.err = "TransactionError"
                   /\ c.cause # Undefined

\* C16's case: a rollback call on a Finished transaction rejected with the
\* errors of two failed task rollbacks, in sweep order.
C16_Witness ==
    \E n \in DOMAIN calls :
        LET c == calls[n]
        IN  /\ c.op = "rollback"
            /\ c.out = "rejected"
            /\ c.err = "rollbackErrors"
            /\ Len(tasks[c.txn]) = 3
            /\ Len(c.rollbackErrors) = 2
            /\ c.rollbackErrors[1].v = TaskAt(c.txn, 2)
            /\ c.rollbackErrors[2].v = TaskAt(c.txn, 0)

\* C18: an accepted execute call stays pending until it settles; it
\* resolves only when no execute of its tasks threw and every registered
\* task was executed, and after a failure it rejects, once every rollback
\* k-1..0 has been attempted and has ended, with a TransactionError holding
\* the thrown error as cause and the sequence of the rollback errors.
C18_ExecuteOutcomes ==
    [][\A n \in DOMAIN calls' :
          LET c == calls'[n]
          IN (c.op = "execute" /\ c.ctx # 0) =>
                 /\ c.pc # "done" => c.out = "pending"
                 /\ ExecuteFailed(c) => c.out # "resolved"
                 /\ c.pc = "done" =>
                        IF ExecuteFailed(c)
                        THEN /\ c.out = "rejected"
                             /\ c.err = "TransactionError"
                             /\ c.cause = ExecuteError(Events(c, "execute", "throw")[1].task)
                             /\ c.rollbackErrors = RollbackErrorsOf(c)
                             /\ Indexes(Events(c, "rollback", "call"))
                                    = Descending(FailedIndex(c))
                             /\ EndedCount(c, "rollback") = FailedIndex(c)
                        ELSE /\ c.out = "resolved"
                             /\ c.err = ""
                             /\ Events(c, "rollback", "call") = <<>>
                             /\ n \in DOMAIN calls /\ Settles(n) =>
                                    TasksOf(Events(c, "execute", "return")) = tasks'[c.txn]
                             /\ ctxs'[c.ctx]["final"] # Null]_vars

\* C18's case: one accepted execute rejected with a TransactionError that
\* holds a rollback error, after two rollbacks, and another one resolved.
C18_Witness ==
    \E m \in DOMAIN calls, n \in DOMAIN calls :
        /\ calls[m].op = "execute" /\ calls[m].ctx # 0
        /\ calls[m].out = "rejected"
        /\ FailedIndex(calls[m]) = 2
        /\ Len(calls[m].rollbackErrors) = 1
        /\ calls[n].op = "execute" /\ calls[n].ctx # 0
        /\ calls[n].out = "resolved"

\* Call n exists and is an accepted execute call; call n has settled.
AcceptedExecute(n) ==
    IF n \in DOMAIN calls
    THEN calls[n].op = "execute" /\ calls[n].ctx # 0
    ELSE FALSE

HasSettled(n) == IF n \in DOMAIN calls THEN calls[n].pc = "done" ELSE FALSE

\* C19: when the task operations complete, every accepted execute call
\* settles; at the step where it settles the state is Finished if it
\* resolved and NotStarted if it rejected, and so not Running.
C19_ExecuteCompletes ==
    /\ \A n \in 1..MaxFairCalls : AcceptedExecute(n) ~> HasSettled(n)
    /\ [][\A n \in DOMAIN calls :
              (calls[n].op = "execute" /\ Settles(n)) =>
                  /\ calls'[n].out \in {"resolved", "rejected"}
                  /\ calls'[n].out = "resolved" => state'[calls[n].txn] = Finished
                  /\ calls'[n].out = "rejected" => state'[calls[n].txn] = NotStarted]_vars

\* C19's case: an accepted execute whose task 1 failed has run its
\* compensation and settled, and the state is NotStarted.
C19_Witness ==
    \E n \in DOMAIN calls :
        /\ calls[n].op = "execute"
        /\ ExecuteFailed(calls[n])
        /\ FailedIndex(calls[n]) = 1
        /\ calls[n].pc = "done"
        /\ EndedCount(calls[n], "rollback") = 1
        /\ state[calls[n].txn] = NotStarted

------------------------------------------------------------------------------
(* Claims about calls issued while other calls are suspended. *)

\* The calls on transaction t that are suspended at a task operation, and
\* those of them suspended at an execute or at a rollback.
InProgress(t) ==
    {n \in DOMAIN calls : calls[n].txn = t /\ calls[n].pc # "done"}

Executing(t) == {n \in InProgress(t) : calls[n].pc = "execute"}
RollingBack(t) == {n \in InProgress(t) : calls[n].pc = "rollback"}

\* C17: at most one task operation of a transaction is in progress at any
\* time, and no task rollback is in progress while a forward pass is.
C17_OneTaskOperationAtATime ==
    \A t \in Txns :
        /\ Cardinality(InProgress(t)) <= 1
        /\ Executing(t) = {} \/ RollingBack(t) = {}

\* Call n on transaction t settles in this step, having attempted every
\* rollback of its sweep: those of tasks k-1..0 for an execute that failed
\* at task k, those of all tasks from its first index for a rollback call.
SweepEnds(n, t, op) ==
    /\ calls[n].txn = t
    /\ calls[n].op = op
    /\ Settles(n)
    /\ calls'[n].out # "resolved" \/ op = "rollback"
    /\ EndedCount(calls'[n], "rollback") = Len(Events(calls'[n], "rollback", "call"))
    /\ IF op = "execute"
       THEN /\ ExecuteFailed(calls'[n])
            /\ Len(Events(calls'[n], "rollback", "call")) = FailedIndex(calls'[n])
       ELSE Len(Events(calls'[n], "rollback", "call")) > 0

\* C20: the state of a transaction changes only from NotStarted to Running
\* in the step that accepts an execute call, from Running to Finished in
\* the step in which an execute call of which no task failed resolves,
\* from Running to NotStarted in the step that ends the compensation sweep
\* of a failed execute, and from Finished to NotStarted in the step that
\* ends the sweep of a rollback call.
C20_LifecycleTransitions ==
    [][\A t \in Txns :
          state'[t] # state[t] =>
              \/ /\ state[t] = NotStarted /\ state'[t] = Running
                 /\ Issues(t, "execute")
                 /\ calls'[Len(calls')].ctx # 0
              \/ /\ state[t] = Running /\ state'[t] = Finished
                 /\ \E n \in DOMAIN calls :
                        /\ calls[n].txn = t /\ calls[n].op = "execute"
                        /\ Settles(n)
                        /\ calls'[n].out = "resolved"
                        /\ ~ExecuteFailed(calls'[n])
              \/ /\ state[t] = Running /\ state'[t] = NotStarted
                 /\ \E n \in DOMAIN calls : SweepEnds(n, t, "execute")
              \/ /\ state[t] = Finished /\ state'[t] = NotStarted
                 /\ \E n \in DOMAIN calls : SweepEnds(n, t, "rollback")]_vars

\* A rollback call on transaction t has been accepted and no execute call
\* on t has been accepted since: the tasks of the last successful execute
\* have had, or are having, their compensation attempt.
RolledBackSinceExecute(t) ==
    \E m \in DOMAIN calls :
        /\ calls[m].txn = t
        /\ calls[m].op = "rollback"
        /\ Len(calls[m].log) > 0
        /\ \A k \in DOMAIN calls :
               (k > m /\ calls[k].txn = t /\ calls[k].op = "execute") =>
                   calls[k].ctx = 0

\* C21: a rollback call issued after another rollback call was accepted for
\* the same successful execute, be that one settled or still suspended at
\* a task, is refused with the InvalidOperationError of rollback and
\* invokes no task rollback.
C21_DuplicateRollbackRefused ==
    [][\A t \in Txns :
          (Issues(t, "rollback") /\ RolledBackSinceExecute(t)) =>
              Refused(ErrNotFinished)]_vars

------------------------------------------------------------------------------
(* Claims about failures inside a transaction used as a task. *)

\* The execute calls of the inner transaction that the outer execute n
\* awaited and whose forward pass failed at an inner task.
FailedInner(n) ==
    {m \in ChildCalls(n, "execute") : calls[m].pc = "done" /\ ExecuteFailed(calls[m])}

\* What holds of an outer execute n whose inner transaction failed in its
\* own forward pass (inner call m): the inner call compensated its tasks
\* j-1..0 once each in descending order and rejected with a
\* TransactionError; the outer call never calls the rollback of the inner
\* transaction; until the outer call settles the inner state is
\* NotStarted; and the outer call, once settled, has rolled back exactly
\* the outer tasks before the inner one, in descending order, and rejected
\* with a TransactionError whose cause is the rejection of the inner call.
InnerFailureHandled ==
    \A n \in Accepted(Outer) : \A m \in FailedInner(n) :
        /\ Indexes(Events(calls[m], "rollback", "call"))
               = Descending(FailedIndex(calls[m]))
        /\ EndedCount(calls[m], "rollback") = FailedIndex(calls[m])
        /\ calls[m].out = "rejected"
        /\ calls[m].err = "TransactionError"
        /\ ChildCalls(n, "rollback") = {}
        /\ calls[n].pc # "done" => state[Inner] = NotStarted
        /\ calls[n].pc # "execute" =>
               /\ calls[n].cause = Rejection(m)
               /\ FailedIndex(calls[n]) = InnerIndex
               /\ IsPrefix(Indexes(Events(calls[n], "rollback", "call")),
                           Descending(InnerIndex))
        /\ calls[n].pc = "done" =>
               /\ calls[n].out = "rejected"
               /\ calls[n].err = "TransactionError"
               /\ Indexes(Events(calls[n], "rollback", "call"))
                      = Descending(InnerIndex)

\* C22: when the forward pass of the inner transaction fails at its task
\* j, the inner transaction compensates its tasks j-1..0 and is NotStarted
\* again; the outer execute does not call its rollback, rolls back the
\* outer tasks before it in descending order and rejects with a
\* TransactionError whose cause is the TransactionError of the inner
\* execute, leaving both transactions NotStarted.
C22_InnerFailureCompensatedOnce ==
    [][/\ InnerFailureHandled'
       /\ \A n \in DOMAIN calls :
              (n \in Accepted(Outer) /\ Settles(n) /\ FailedInner(n) # {}) =>
                  /\ state'[Inner] = NotStarted
                  /\ state'[Outer] = NotStarted]_vars

\* C22's case: the outer transaction holds a task and then the inner
\* transaction, whose second task failed; the inner call rolled back its
\* first task, and the outer call rolled back its first task and rejected.
C22_Witness ==
    \E n \in Accepted(Outer) : \E m \in FailedInner(n) :
        /\ FailedIndex(calls[m]) = 1
        /\ Indexes(Events(calls[m], "rollback", "call")) = <<0>>
        /\ calls[n].pc = "done"
        /\ InnerIndex = 1
        /\ Indexes(Events(calls[n], "rollback", "call")) = <<0>>
        /\ calls[n].cause = Rejection(m)

\* The errors raised while call n compensated, one for each failed
\* rollback of a task that is not a transaction, in the order the
\* rollbacks were attempted: those of the tasks of a transaction that the
\* sweep rolled back stand where the rollback of that transaction stands.
\* es is what is left of the failed rollbacks of call n.
RECURSIVE ErrorsRaised(_, _)
ErrorsRaised(n, es) ==
    IF es = <<>> THEN <<>>
    ELSE LET e == es[1]
             sub == {m \in ChildCalls(n, "rollback") : Len(calls[m].log) > 0}
             own == IF ~IsTxn(e.task) THEN <<RollbackError(e.task)>>
                    ELSE IF sub = {} THEN <<Rejection(0)>>
                    ELSE LET m == CHOOSE m \in sub : TRUE
                         IN ErrorsRaised(m, Events(calls[m], "rollback", "throw"))
         IN own \o ErrorsRaised(n, Tail(es))

\* C23: the rollbackErrors of the TransactionError of a failed execute is
\* the sequence of the errors raised while compensating, one entry for each
\* failed rollback, in the order attempted, the failed rollbacks of the
\* tasks of a compensated transaction included one by one.
C23_RollbackErrorsFlat ==
    \A n \in DOMAIN calls :
        LET c == calls[n]
        IN (ExecuteFailed(c) /\ c.pc = "done" /\ c.parent = 0) =>
               c.rollbackErrors = ErrorsRaised(n, Events(c, "rollback", "throw"))

------------------------------------------------------------------------------
(* Claims about names, add and separate transactions. *)

\* C24: from the moment the i-th task of an accepted execute has returned,
\* the results object of that execute holds under the index i what that
\* task returned, whatever the names of the tasks.
C24_IndexEntriesKept ==
    \A n \in DOMAIN calls :
        LET c == calls[n]
            ran == Events(c, "execute", "return")
        IN (c.op = "execute" /\ c.ctx # 0 /\ c.parent = 0) =>
               \A j \in DOMAIN ran :
                   /\ ran[j].idx = j - 1
                   /\ Get(ctxs[c.ctx], IndexKey(j - 1)) = TaskResult(ran[j].task)

\* The number of events (op, ev) of the task at index idx in the calls 1..n
\* of transaction t.
RECURSIVE EventCount(_, _, _, _, _)
EventCount(t, idx, op, ev, n) ==
    IF n = 0 THEN 0
    ELSE EventCount(t, idx, op, ev, n - 1)
         + (IF calls[n].txn = t
            THEN Len(SelectSeq(Events(calls[n], op, ev), LAMBDA e : e.idx = idx))
            ELSE 0)

\* C25: the rollback of a task has been invoked at most as often as its
\* execute has returned: each invocation of a rollback compensates one
\* completed execute of that task that no rollback compensated before.
C25_RollbackOnlyOfExecuted ==
    \A t \in Txns : \A idx \in 0..(Len(tasks[t]) - 1) :
        EventCount(t, idx, "rollback", "call", Len(calls))
            <= EventCount(t, idx, "execute", "return", Len(calls))

\* A step on transaction t: t is given a task, a call of execute or rollback
\* is issued on t, or a call on t goes on after one of its tasks settled.
ActsOn(t) ==
    \/ tasks'[t] # tasks[t]
    \/ \E op \in {"execute", "rollback"} : Issues(t, op)
    \/ \E n \in DOMAIN calls : calls[n].txn = t /\ calls'[n] # calls[n]

\* The task list, the lifecycle state and the results objects of transaction
\* u are after the step what they were before it.
Untouched(u) ==
    /\ tasks'[u] = tasks[u]
    /\ state'[u] = state[u]
    /\ \A n \in DOMAIN calls :
           (calls[n].txn = u /\ calls[n].op = "execute" /\ calls[n].ctx # 0)
               => ctxs'[calls[n].ctx] = ctxs[calls[n].ctx]

\* C26: of two transactions that share no task, a step on one (an add, a
\* call of execute or rollback, or the continuation of a call after a task
\* settled), at any point of the other's calls, leaves the other's task
\* list, lifecycle state and results objects unchanged.
C26_SeparateTransactionsIndependent ==
    [][\A t \in Pair : \A u \in Pair \ {t} : ActsOn(t) => Untouched(u)]_vars

\* Both transactions hold a task, an execute of one is suspended at its task
\* while an execute of the other, issued in between, has resolved.
C26_Witness ==
    \E t \in Pair : \E u \in Pair \ {t} : \E n \in DOMAIN calls : \E m \in DOMAIN calls :
        /\ n < m
        /\ calls[n].txn = t /\ calls[n].op = "execute" /\ calls[n].pc # "done"
        /\ calls[m].txn = u /\ calls[m].op = "execute" /\ calls[m].out = "resolved"
        /\ Len(tasks[t]) > 0 /\ Len(tasks[u]) > 0
        /\ state[t] = Running /\ state[u] = Finished

==============================================================================
